---- MODULE Spec2Model ----
(***************************************************************************)
(* Model of the DirectWriteCustomFontSets sample:                          *)
(*   CustomFontSetManager.cpp  - the font set manager                      *)
(*   DWriteCustomFontSets.cpp  - wmain and the two report functions        *)
(*                                                                         *)
(* DirectWrite is an external collaborator.  Every call the code makes     *)
(* into it that returns an HRESULT is a step of a "plan" (the sequence of  *)
(* calls the handler would make if none failed); a handler's run is the    *)
(* plan cut at the first call that fails.  A call fails either because of  *)
(* its argument (AddFontFile on data that is no font, CreateFontFace on a  *)
(* font whose data is remote) or because the platform fails it (failAt,    *)
(* the position of the failing call, 0 for none).  DX::ThrowIfFailed turns *)
(* a failed call into a C++ exception that leaves the handler.             *)
(***************************************************************************)
EXTENDS Integers, Sequences, FiniteSets, TLC

VARIABLES
    mgr,                        \* lifetime of the CustomFontSetManager object
    m_dwriteFactory5,           \* TRUE iff the IDWriteFactory5 pointer is non-null
    m_inMemoryFontFileLoader,   \* 0 (nullptr) or the id of the loader it points to
    m_customFontSet,            \* <<>> (nullptr) or <<entries>>
    registered,                 \* loaders registered with the DirectWrite factory
    everRegistered,             \* history: loaders RegisterFontFileLoader accepted
    unregisterCalls,            \* history: loaders passed to UnregisterFontFileLoader
    loaders,                    \* number of loaders created so far
    builds,                     \* number of calls of CreateFontSetUsingInMemoryFontData
    appFontResources,           \* the fonts BinaryResources::GetFonts hands out
    documentFonts,              \* the fonts Document::GetFonts hands out
    last,                       \* the last operation: its inputs, calls and outcome
    pc,                         \* wmain: position ("api" when a client drives the manager)
    scenario,                   \* wmain: the scenario the command line selects
    out,                        \* wmain: messages written to std::wcout
    exitCode                    \* wmain: "running", "0", "-1", or "terminated"

vars == <<mgr, m_dwriteFactory5, m_inMemoryFontFileLoader, m_customFontSet,
          registered, everRegistered, unregisterCalls, loaders, builds,
          appFontResources, documentFonts, last, pc, scenario, out, exitCode>>

mgrVars == <<mgr, m_dwriteFactory5, m_inMemoryFontFileLoader, m_customFontSet,
             registered, everRegistered, unregisterCalls, loaders, builds>>

\* Both providers serve static data: what they hand out never changes.
fontVars == <<appFontResources, documentFonts>>

mainVars == <<pc, scenario, out, exitCode>>

----------------------------------------------------------------------------
(* Bounds *)

\* Largest number of font buffers the two providers hand out together.
MaxFonts == 2

\* Largest number of calls of CreateFontSetUsingInMemoryFontData on one manager.
MaxBuilds == 2

----------------------------------------------------------------------------
(* Pointers: a ComPtr is <<>> when null and <<x>> when it points to x. *)

NullPtr == <<>>

IsNull(p) == p = <<>>

Deref(p) == p[1]

----------------------------------------------------------------------------
(* Font data.  The buffers the providers can hand out, and what DirectWrite *)
(* finds in each: its faces (none when the data is no font), and where the  *)
(* data is.                                                                 *)

NoName == "<none>"

FontBuffers == {"regular", "collection", "garbage", "remote", "partial"}

Faces(b) ==
    CASE b = "regular"    -> << [fullName |-> "Regular", xHeight |-> 5] >>
      [] b = "collection" -> << [fullName |-> "Coll A", xHeight |-> 4],
                                [fullName |-> NoName, xHeight |-> 6] >>
      [] b = "garbage"    -> << >>
      [] b = "remote"     -> << [fullName |-> "Remote", xHeight |-> 7] >>
      [] b = "partial"    -> << [fullName |-> "Regular", xHeight |-> 3] >>

\* What GetLocality reports for the entries of a buffer.  The code does not
\* assume that an entry of the set is local: the platform may report any of
\* DWRITE_LOCALITY_LOCAL, _PARTIAL and _REMOTE.
Locality(b) ==
    CASE b = "remote"  -> "REMOTE"
      [] b = "partial" -> "PARTIAL"
      [] OTHER         -> "LOCAL"

\* The entries AddFontFile adds for one buffer: one per face of the file.
EntriesOf(b) ==
    [k \in 1..Len(Faces(b)) |->
        [file |-> b, locality |-> Locality(b),
         fullName |-> Faces(b)[k].fullName, xHeight |-> Faces(b)[k].xHeight]]

\* Sequences of distinct buffers, of length n.
RECURSIVE DistinctSeqs(_, _)
DistinctSeqs(S, n) ==
    IF n = 0 THEN { <<>> }
    ELSE UNION { { <<b>> \o s : s \in DistinctSeqs(S \ {b}, n - 1) } : b \in S }

\* What BinaryResources::GetFonts and Document::GetFonts return together:
\* <<appFontResources, documentFonts>>, all buffers distinct.
FontSources ==
    UNION { { <<SubSeq(s, 1, k), SubSeq(s, k + 1, Len(s))>> : k \in 0..Len(s) }
            : s \in UNION { DistinctSeqs(FontBuffers, n) : n \in 0..MaxFonts } }

----------------------------------------------------------------------------
(* Plans and runs *)

\* arg: "-" for a call that takes no font; [src, index, font] for a call of the
\* build on a font buffer; [index, entry] for a call on an entry of the font set.
Call(api, arg) == [api |-> api, arg |-> arg]

\* The HRESULT of call i of a plan is a failure: the platform fails it, or
\* AddFontFile is given data that is no font (DWRITE_E_FILEFORMAT), or
\* CreateFontFace is asked for a font whose data is remote (DWRITE_E_REMOTEFONT).
CallFails(plan, failAt, i) ==
    \/ i = failAt
    \/ plan[i].api = "AddFontFile" /\ Faces(plan[i].arg.font) = << >>
    \/ plan[i].api = "CreateFontFace" /\ plan[i].arg.entry.locality = "REMOTE"

\* Position of the first failing call, 0 when every call succeeds.
FirstFail(plan, failAt) ==
    LET bad == { i \in 1..Len(plan) : CallFails(plan, failAt, i) }
    IN  IF bad = {} THEN 0 ELSE CHOOSE i \in bad : \A j \in bad : i <= j

\* The calls made: the plan up to and including the first failing call.
Made(plan, failAt) ==
    IF FirstFail(plan, failAt) = 0 THEN plan
    ELSE SubSeq(plan, 1, FirstFail(plan, failAt))

\* DX::ThrowIfFailed threw.
Threw(plan, failAt) == FirstFail(plan, failAt) # 0

\* Call i of the plan was made and succeeded.
Succeeded(plan, failAt, i) ==
    /\ i \in 1..Len(plan)
    /\ FirstFail(plan, failAt) = 0 \/ i < FirstFail(plan, failAt)

RECURSIVE Flatten(_)
Flatten(ss) == IF ss = << >> THEN << >> ELSE Head(ss) \o Flatten(Tail(ss))

----------------------------------------------------------------------------
(* CustomFontSetManager::CustomFontSetManager *)

\* DWriteCreateFactory, then QueryInterface for IDWriteFactory5.  E_NOINTERFACE
\* from the second is let go (hasFactory5 = FALSE); any other failure throws.
ConstructorPlan == << Call("DWriteCreateFactory", "-"), Call("As_IDWriteFactory5", "-") >>

----------------------------------------------------------------------------
(* CustomFontSetManager::IDWriteFactory5_IsAvailable *)

\* Mutant of IDWriteFactory5_IsAvailable: the interface is reported as present
\* whatever the pointer holds.
IDWriteFactory5_IsAvailable_Always(factory5) == TRUE

\* factory5: TRUE iff m_dwriteFactory5 is non-null.
IDWriteFactory5_IsAvailable(factory5) == factory5

----------------------------------------------------------------------------
(* CustomFontSetManager::CreateFontSetUsingInMemoryFontData *)

\* The two calls of one pass of a font loop.
AddFontCalls(src, fonts, i) ==
    LET a == [src |-> src, index |-> i - 1, font |-> fonts[i]]
    IN  << Call("CreateInMemoryFontFileReference", a), Call("AddFontFile", a) >>

AddFontsPlan(src, fonts) ==
    Flatten([i \in 1..Len(fonts) |-> AddFontCalls(src, fonts, i)])

\* Mutant of BuildPlan: the loop over the document's fonts is missing.
BuildPlan_AppOnly(app, doc) ==
    << Call("CreateInMemoryFontFileLoader", "-"),
       Call("RegisterFontFileLoader", "-"),
       Call("CreateFontSetBuilder", "-") >>
    \o AddFontsPlan("app", app)
    \o << Call("CreateFontSet", "-") >>

\* Mutant of BuildPlan: the loop over the document's fonts runs before the
\* loop over the app's fonts.
BuildPlan_DocFirst(app, doc) ==
    << Call("CreateInMemoryFontFileLoader", "-"),
       Call("RegisterFontFileLoader", "-"),
       Call("CreateFontSetBuilder", "-") >>
    \o AddFontsPlan("doc", doc)
    \o AddFontsPlan("app", app)
    \o << Call("CreateFontSet", "-") >>

BuildPlan(app, doc) ==
    << Call("CreateInMemoryFontFileLoader", "-"),
       Call("RegisterFontFileLoader", "-"),
       Call("CreateFontSetBuilder", "-") >>
    \o AddFontsPlan("app", app)
    \o AddFontsPlan("doc", doc)
    \o << Call("CreateFontSet", "-") >>

\* The entries the builder holds after the first n calls of the plan.
RECURSIVE BuilderEntries(_, _, _)
BuilderEntries(plan, failAt, n) ==
    IF n = 0 THEN << >>
    ELSE BuilderEntries(plan, failAt, n - 1)
         \o (IF plan[n].api = "AddFontFile" /\ Succeeded(plan, failAt, n)
             THEN EntriesOf(plan[n].arg.font) ELSE << >>)

\* Mutant of BuildRegistered: registration done once per manager, skipped when
\* the manager already has a registered loader.
BuildRegistered_OncePerManager(reg, created, plan, failAt) ==
    IF reg # {} THEN reg
    ELSE IF Succeeded(plan, failAt, 2) THEN reg \cup {created + 1} ELSE reg

\* Mutant of BuildFontSet: a build that throws leaves behind the set of the
\* fonts added so far.
BuildFontSet_Partial(old, plan, failAt) ==
    << BuilderEntries(plan, failAt, Len(plan)) >>

\* m_inMemoryFontFileLoader after the build.  ComPtr::operator& releases the
\* pointer before CreateInMemoryFontFileLoader writes the new loader to it.
BuildLoader(created, plan, failAt) ==
    IF Succeeded(plan, failAt, 1) THEN created + 1 ELSE 0

\* The loaders registered with the factory after the build.
BuildRegistered(reg, created, plan, failAt) ==
    IF Succeeded(plan, failAt, 2) THEN reg \cup {created + 1} ELSE reg

\* m_customFontSet after the build.  It is written by CreateFontSet alone, the
\* last call; ComPtr::operator& releases the old set before that call.
BuildFontSet(old, plan, failAt) ==
    IF ~Threw(plan, failAt) THEN << BuilderEntries(plan, failAt, Len(plan)) >>
    ELSE IF FirstFail(plan, failAt) = Len(plan) THEN NullPtr
    ELSE old

----------------------------------------------------------------------------
(* CustomFontSetManager::GetFontCount *)

\* Mutant of GetFontCount: no null check, the count is that of the fonts handed
\* to the builder.
GetFontCount_OfSources(fontSet) ==
    IF IsNull(fontSet) THEN Len(appFontResources) + Len(documentFonts)
    ELSE Len(Deref(fontSet))

GetFontCount(fontSet) ==
    IF IsNull(fontSet) THEN 0 ELSE Len(Deref(fontSet))

----------------------------------------------------------------------------
(* CustomFontSetManager::GetFullFontNames / GetPropertyValuesFromFontSet *)

\* IDWriteFontSet::GetPropertyValues: the unique full names across the first n
\* entries, in order of first appearance.
RECURSIVE PropertyValues(_, _)
PropertyValues(entries, n) ==
    IF n = 0 THEN << >>
    ELSE LET before == PropertyValues(entries, n - 1)
             name == entries[n].fullName
         IN  IF name = NoName \/ \E k \in 1..Len(before) : before[k] = name
             THEN before ELSE Append(before, name)

FullNamesPlan(entries) ==
    << Call("GetPropertyValues", "-") >>
    \o Flatten([i \in 1..Len(PropertyValues(entries, Len(entries))) |->
                   << Call("GetStringLength", "-"), Call("GetString", "-") >>])

GetFullFontNames(entries) == PropertyValues(entries, Len(entries))

----------------------------------------------------------------------------
(* CustomFontSetManager::GetFontDataDetails *)

EntryArg(entries, i) == [index |-> i - 1, entry |-> entries[i]]

\* First loop: enqueue a download request for every entry.
EnqueuePlan(entries) ==
    Flatten([i \in 1..Len(entries) |->
        << Call("GetFontFaceReference", EntryArg(entries, i)),
           Call("EnqueueFontDownloadRequest", EntryArg(entries, i)) >>])

\* Second loop, one pass: create the font face and read its full name.
ReadFontCalls(entries, i) ==
    << Call("GetFontFaceReference", EntryArg(entries, i)),
       Call("CreateFontFace", EntryArg(entries, i)),
       Call("GetInformationalStrings", EntryArg(entries, i)) >>
    \o (IF entries[i].fullName # NoName
        THEN << Call("FindLocaleName", EntryArg(entries, i)),
                Call("GetStringLength", EntryArg(entries, i)),
                Call("GetString", EntryArg(entries, i)) >>
        ELSE << >>)

\* Mutant of DetailsPlan: one loop, which enqueues the download request of an
\* entry and reads its font data in the same pass.
DetailsPlan_Interleaved(entries) ==
    Flatten([i \in 1..Len(entries) |->
        << Call("GetFontFaceReference", EntryArg(entries, i)),
           Call("EnqueueFontDownloadRequest", EntryArg(entries, i)) >>
        \o ReadFontCalls(entries, i)])

DetailsPlan(entries) ==
    EnqueuePlan(entries)
    \o Flatten([i \in 1..Len(entries) |-> ReadFontCalls(entries, i)])

\* One report line: the full name, or "Font <index>", then the x-height.
FontDetailReport(entries, i) ==
    [name |-> IF entries[i].fullName # NoName THEN entries[i].fullName
              ELSE "Font " \o ToString(i - 1),
     xHeight |-> entries[i].xHeight]

\* The vector returned when nothing threw.  cancellationHandle is not read
\* anywhere in the function body, and nothing in it waits.
GetFontDataDetails(entries, cancellationHandle) ==
    [i \in 1..Len(entries) |-> FontDetailReport(entries, i)]

----------------------------------------------------------------------------
(* CustomFontSetManager::CustomFontSetHasRemoteFonts *)

\* Mutant of HasRemoteFrom: the test is for DWRITE_LOCALITY_REMOTE.
RECURSIVE HasRemoteFrom_RemoteOnly(_, _)
HasRemoteFrom_RemoteOnly(entries, i) ==
    IF i > Len(entries) THEN FALSE
    ELSE IF entries[i].locality = "REMOTE" THEN TRUE
    ELSE HasRemoteFrom_RemoteOnly(entries, i + 1)

\* The loop from entry i on: TRUE at the first entry that is not local.
RECURSIVE HasRemoteFrom(_, _)
HasRemoteFrom(entries, i) ==
    IF i > Len(entries) THEN FALSE
    ELSE IF entries[i].locality # "LOCAL" THEN TRUE
    ELSE HasRemoteFrom(entries, i + 1)

CustomFontSetHasRemoteFonts(entries) == HasRemoteFrom(entries, 1)

\* The loop asks for the face reference of each entry up to the one it returns at.
RECURSIVE HasRemotePlanFrom(_, _)
HasRemotePlanFrom(entries, i) ==
    IF i > Len(entries) THEN << >>
    ELSE << Call("GetFontFaceReference", EntryArg(entries, i)) >>
         \o (IF entries[i].locality # "LOCAL" THEN << >>
             ELSE HasRemotePlanFrom(entries, i + 1))

HasRemotePlan(entries) == HasRemotePlanFrom(entries, 1)

----------------------------------------------------------------------------
(* CustomFontSetManager::UnregisterFontFileLoader *)

\* The loaders registered after UnregisterFontFileLoader(fontFileLoader): a
\* null pointer is skipped; the factory's result is ignored.
UnregisterFontFileLoader(reg, fontFileLoader) ==
    IF fontFileLoader # 0 THEN reg \ {fontFileLoader} ELSE reg

\* The loaders handed to the factory's UnregisterFontFileLoader so far.
UnregisterCalled(calls, fontFileLoader) ==
    IF fontFileLoader # 0 THEN calls \cup {fontFileLoader} ELSE calls

----------------------------------------------------------------------------
(* State *)

\* The record of an operation: which, its inputs, the platform calls it made,
\* whether it left by an exception, and what it returned.
Op(op, cancel, log, threw, ret) ==
    [op |-> op, cancel |-> cancel, log |-> log, threw |-> threw, ret |-> ret]

NoOp == Op("none", "-", << >>, FALSE, "-")

\* What a caller can pass as cancellationHandle: nullptr, or an event handle
\* that is not yet signaled, or one that is already signaled.
CancellationHandles == {"nullptr", "unsignaled", "signaled"}

Built == ~IsNull(m_customFontSet)

ManagerInit ==
    /\ mgr = "none"
    /\ m_dwriteFactory5 = FALSE
    /\ m_inMemoryFontFileLoader = 0
    /\ m_customFontSet = NullPtr
    /\ registered = {}
    /\ everRegistered = {}
    /\ unregisterCalls = {}
    /\ loaders = 0
    /\ builds = 0
    /\ last = NoOp

----------------------------------------------------------------------------
(* The manager's operations.  Each leaves pc, out and exitCode to its caller. *)

\* CustomFontSetManager(): a throwing constructor leaves no object behind.
DoConstruct(hasFactory5, failAt) ==
    /\ mgr = "none"
    /\ mgr' = IF Threw(ConstructorPlan, failAt) THEN "failed" ELSE "live"
    /\ m_dwriteFactory5' = (~Threw(ConstructorPlan, failAt) /\ hasFactory5)
    /\ last' = Op("Constructor", "-", Made(ConstructorPlan, failAt),
                  Threw(ConstructorPlan, failAt), "-")
    /\ UNCHANGED <<m_inMemoryFontFileLoader, m_customFontSet, registered,
                   everRegistered, unregisterCalls, loaders, builds>>

\* CreateFontSetUsingInMemoryFontData(), m_dwriteFactory5 non-null.
DoBuild(failAt) ==
    LET plan == BuildPlan(appFontResources, documentFonts)
    IN  /\ mgr = "live"
        /\ m_dwriteFactory5
        /\ builds < MaxBuilds
        /\ builds' = builds + 1
        /\ m_inMemoryFontFileLoader' = BuildLoader(loaders, plan, failAt)
        /\ loaders' = IF Succeeded(plan, failAt, 1) THEN loaders + 1 ELSE loaders
        /\ registered' = BuildRegistered(registered, loaders, plan, failAt)
        /\ everRegistered' = everRegistered \cup (registered' \ registered)
        /\ m_customFontSet' = BuildFontSet(m_customFontSet, plan, failAt)
        /\ last' = Op("Build", "-", Made(plan, failAt),
                      Threw(plan, failAt), "-")
        /\ UNCHANGED <<mgr, m_dwriteFactory5, unregisterCalls>>

\* GetFontCount() const.
DoGetFontCount ==
    /\ mgr = "live"
    /\ last' = Op("GetFontCount", "-", << >>, FALSE,
                  GetFontCount(m_customFontSet))
    /\ UNCHANGED mgrVars

\* GetFullFontNames() const, m_customFontSet non-null.
DoGetFullFontNames(failAt) ==
    LET entries == Deref(m_customFontSet)
        plan == FullNamesPlan(entries)
    IN  /\ mgr = "live"
        /\ Built
        /\ last' = Op("GetFullFontNames", "-", Made(plan, failAt),
                      Threw(plan, failAt),
                      IF Threw(plan, failAt) THEN << >> ELSE GetFullFontNames(entries))
        /\ UNCHANGED mgrVars

\* GetFontDataDetails(cancellationHandle) const, m_customFontSet non-null.
DoGetFontDataDetails(cancellationHandle, failAt) ==
    LET entries == Deref(m_customFontSet)
        plan == DetailsPlan(entries)
    IN  /\ mgr = "live"
        /\ Built
        /\ last' = Op("GetFontDataDetails", cancellationHandle,
                      Made(plan, failAt), Threw(plan, failAt),
                      IF Threw(plan, failAt) THEN << >>
                      ELSE GetFontDataDetails(entries, cancellationHandle))
        /\ UNCHANGED mgrVars

\* CustomFontSetHasRemoteFonts() const, m_customFontSet non-null.
DoHasRemoteFonts(failAt) ==
    LET entries == Deref(m_customFontSet)
        plan == HasRemotePlan(entries)
    IN  /\ mgr = "live"
        /\ Built
        /\ last' = Op("CustomFontSetHasRemoteFonts", "-",
                      Made(plan, failAt), Threw(plan, failAt),
                      IF Threw(plan, failAt) THEN FALSE
                      ELSE CustomFontSetHasRemoteFonts(entries))
        /\ UNCHANGED mgrVars

\* The operations that call through a null ComPtr: the build through
\* m_dwriteFactory5, three queries through m_customFontSet.  The behaviour is
\* undefined: the process dies of an access violation, or the call comes back
\* with a value nothing determines.  last records which operation it was.
NullDereferences ==
    (IF m_dwriteFactory5 THEN {} ELSE {"Build"})
    \cup (IF Built THEN {}
          ELSE {"GetFullFontNames", "GetFontDataDetails", "CustomFontSetHasRemoteFonts"})

DoNullDereference(op, crashes) ==
    /\ mgr = "live"
    /\ op \in NullDereferences
    /\ mgr' = IF crashes THEN "crashed" ELSE mgr
    /\ last' = Op("null dereference", "-", << >>, FALSE, op)
    /\ UNCHANGED <<m_dwriteFactory5, m_inMemoryFontFileLoader, m_customFontSet,
                   registered, everRegistered, unregisterCalls, loaders, builds>>

\* ~CustomFontSetManager(): unregisters the loader m_inMemoryFontFileLoader
\* points to, then the ComPtr members release what they hold.
DoDestroy ==
    /\ mgr = "live"
    /\ mgr' = "destroyed"
    /\ registered' = UnregisterFontFileLoader(registered, m_inMemoryFontFileLoader)
    /\ unregisterCalls' = UnregisterCalled(unregisterCalls, m_inMemoryFontFileLoader)
    /\ last' = Op("Destructor", "-", << >>, FALSE, "-")
    /\ UNCHANGED <<m_dwriteFactory5, m_inMemoryFontFileLoader, m_customFontSet,
                   everRegistered, loaders, builds>>

----------------------------------------------------------------------------
(* Spec: a client drives one manager through its public interface, one call *)
(* at a time, catching what the calls throw.  last holds the outcome of the *)
(* call just made until the client goes on to its next call.                *)

Idle == last = NoOp

Init ==
    /\ ManagerInit
    /\ \E s \in FontSources : appFontResources = s[1] /\ documentFonts = s[2]
    /\ pc = "api"
    /\ scenario = "-"
    /\ out = << >>
    /\ exitCode = "running"

Construct ==
    /\ pc = "api" /\ Idle
    /\ \E hasFactory5 \in BOOLEAN, failAt \in 0..Len(ConstructorPlan) :
            DoConstruct(hasFactory5, failAt)
    /\ UNCHANGED <<fontVars, mainVars>>

Build ==
    /\ pc = "api" /\ Idle
    /\ \E failAt \in 0..Len(BuildPlan(appFontResources, documentFonts)) :
            DoBuild(failAt)
    /\ UNCHANGED <<fontVars, mainVars>>

QueryFontCount ==
    /\ pc = "api" /\ Idle
    /\ DoGetFontCount
    /\ UNCHANGED <<fontVars, mainVars>>

QueryFullFontNames ==
    /\ pc = "api" /\ Idle
    /\ Built
    /\ \E failAt \in 0..Len(FullNamesPlan(Deref(m_customFontSet))) :
            DoGetFullFontNames(failAt)
    /\ UNCHANGED <<fontVars, mainVars>>

QueryFontDataDetails ==
    /\ pc = "api" /\ Idle
    /\ Built
    /\ \E h \in CancellationHandles :
         \E failAt \in 0..Len(DetailsPlan(Deref(m_customFontSet))) :
            DoGetFontDataDetails(h, failAt)
    /\ UNCHANGED <<fontVars, mainVars>>

QueryHasRemoteFonts ==
    /\ pc = "api" /\ Idle
    /\ Built
    /\ \E failAt \in 0..Len(HasRemotePlan(Deref(m_customFontSet))) :
            DoHasRemoteFonts(failAt)
    /\ UNCHANGED <<fontVars, mainVars>>

NullDereference ==
    /\ pc = "api" /\ Idle
    /\ \E op \in NullDereferences, crashes \in BOOLEAN : DoNullDereference(op, crashes)
    /\ UNCHANGED <<fontVars, mainVars>>

Destroy ==
    /\ pc = "api" /\ Idle
    /\ DoDestroy
    /\ UNCHANGED <<fontVars, mainVars>>

\* The client has read the outcome of its last call and goes on.
Continue ==
    /\ pc = "api" /\ ~Idle
    /\ mgr = "live"
    /\ last' = NoOp
    /\ UNCHANGED <<mgrVars, fontVars, mainVars>>

Next ==
    \/ Construct
    \/ Build
    \/ QueryFontCount
    \/ QueryFullFontNames
    \/ QueryFontDataDetails
    \/ QueryHasRemoteFonts
    \/ NullDereference
    \/ Destroy
    \/ Continue

Spec == Init /\ [][Next]_vars

----------------------------------------------------------------------------
(* MainSpec: one run of wmain.  wmain has no try block: an exception that   *)
(* leaves a manager call ends the process by std::terminate, and whether    *)
(* the stack is unwound first (running ~CustomFontSetManager) is left to    *)
(* the implementation.                                                      *)

Scenarios == {"InMemoryFonts", "Other"}

\* GetStdHandle(STD_INPUT_HANDLE): the console input handle, or INVALID_HANDLE_VALUE.
StdHandles == {"stdin", "INVALID_HANDLE_VALUE"}

MainInit ==
    /\ ManagerInit
    /\ \E s \in FontSources : appFontResources = s[1] /\ documentFonts = s[2]
    /\ pc = "ProcessArgs"
    /\ scenario = "-"
    /\ out = << >>
    /\ exitCode = "running"

\* return from wmain with fontSetManager in scope: its destructor runs.
ReturnFromMain(code) ==
    /\ DoDestroy
    /\ pc' = "exited"
    /\ exitCode' = code

\* Lines 26-33: the command line is processed; usage and -1 when it is rejected.
Main_ProcessArgs ==
    /\ pc = "ProcessArgs"
    /\ \E valid \in BOOLEAN, sc \in Scenarios :
         IF valid
         THEN /\ pc' = "Construct"
              /\ scenario' = sc
              /\ UNCHANGED <<out, exitCode>>
         ELSE /\ pc' = "exited"
              /\ out' = Append(out, "usage")
              /\ exitCode' = "-1"
              /\ UNCHANGED scenario
    /\ UNCHANGED <<mgrVars, fontVars, last>>

\* Line 38: the manager is constructed.
Main_Construct ==
    /\ pc = "Construct"
    /\ \E hasFactory5 \in BOOLEAN, failAt \in 0..Len(ConstructorPlan) :
         /\ DoConstruct(hasFactory5, failAt)
         /\ pc' = IF Threw(ConstructorPlan, failAt) THEN "uncaught" ELSE "switch"
    /\ UNCHANGED <<fontVars, scenario, out, exitCode>>

\* Lines 50-55: scenario InMemoryFonts without IDWriteFactory5.
Main_Unavailable ==
    /\ pc = "switch"
    /\ scenario = "InMemoryFonts"
    /\ ~IDWriteFactory5_IsAvailable(m_dwriteFactory5)
    /\ out' = out \o << "Scenario 4", "requires Windows 10 Creators Update" >>
    /\ ReturnFromMain("-1")
    /\ UNCHANGED <<fontVars, scenario>>

\* Lines 50-57: scenario InMemoryFonts, IDWriteFactory5_IsAvailable() true: the
\* font set is built.  The build calls through m_dwriteFactory5 (line 111): were
\* the pointer null here, the call would be a null dereference, which ends the
\* process or comes back.
Main_Build ==
    /\ pc = "switch"
    /\ scenario = "InMemoryFonts"
    /\ IDWriteFactory5_IsAvailable(m_dwriteFactory5)
    /\ out' = Append(out, "Scenario 4")
    /\ IF m_dwriteFactory5
       THEN /\ \E failAt \in 0..Len(BuildPlan(appFontResources, documentFonts)) :
                 /\ DoBuild(failAt)
                 /\ pc' = IF Threw(BuildPlan(appFontResources, documentFonts), failAt)
                          THEN "uncaught" ELSE "ReportFontProperties"
            /\ UNCHANGED exitCode
       ELSE \E crashes \in BOOLEAN :
                 /\ DoNullDereference("Build", crashes)
                 /\ pc' = IF crashes THEN "exited" ELSE "ReportFontProperties"
                 /\ exitCode' = IF crashes THEN "terminated" ELSE exitCode
    /\ UNCHANGED <<fontVars, scenario>>

\* Lines 59-61: any other scenario.
Main_NotImplemented ==
    /\ pc = "switch"
    /\ scenario # "InMemoryFonts"
    /\ out' = Append(out, "not implemented")
    /\ ReturnFromMain("-1")
    /\ UNCHANGED <<fontVars, scenario>>

\* Line 68, ReportFontProperties: the count, then the full names when there are fonts.
Main_ReportFontProperties ==
    /\ pc = "ReportFontProperties"
    /\ IF GetFontCount(m_customFontSet) > 0
       THEN \E failAt \in 0..Len(FullNamesPlan(Deref(m_customFontSet))) :
              /\ DoGetFullFontNames(failAt)
              /\ IF last'.threw
                 THEN /\ pc' = "uncaught"
                      /\ out' = out \o << "Number of fonts", "Full face name property" >>
                 ELSE /\ pc' = "ReportFontDataDetails"
                      /\ out' = out \o << "Number of fonts", "Full face name property" >>
                                    \o last'.ret
       ELSE /\ DoGetFontCount
            /\ pc' = "ReportFontDataDetails"
            /\ out' = Append(out, "Number of fonts")
    /\ UNCHANGED <<fontVars, scenario, exitCode>>

\* Line 79, ReportFontDataDetails, no fonts: nothing is reported.
Main_NoFontDataDetails ==
    /\ pc = "ReportFontDataDetails"
    /\ GetFontCount(m_customFontSet) = 0
    /\ DoGetFontCount
    /\ pc' = "return"
    /\ UNCHANGED <<fontVars, scenario, out, exitCode>>

\* Line 79, ReportFontDataDetails, lines 130-146: the font set is asked whether
\* it has remote fonts; if so the console input handle becomes the
\* cancellation handle, and without one the details are skipped.
Main_CheckRemoteFonts ==
    /\ pc = "ReportFontDataDetails"
    /\ GetFontCount(m_customFontSet) > 0
    /\ \E failAt \in 0..Len(HasRemotePlan(Deref(m_customFontSet))), h \in StdHandles :
         /\ DoHasRemoteFonts(failAt)
         /\ IF last'.threw
            THEN /\ pc' = "uncaught"
                 /\ out' = Append(out, "Reporting some details")
            ELSE IF ~last'.ret
            THEN /\ pc' = "GetFontDataDetails:nullptr"
                 /\ out' = Append(out, "Reporting some details")
            ELSE IF h = "INVALID_HANDLE_VALUE"
            THEN /\ pc' = "return"
                 /\ out' = out \o << "Reporting some details", "has remote fonts",
                                      "skipping" >>
            ELSE /\ pc' = "GetFontDataDetails:stdin"
                 /\ out' = out \o << "Reporting some details", "has remote fonts",
                                      "Fetching remote fonts" >>
    /\ UNCHANGED <<fontVars, scenario, exitCode>>

\* ReportFontDataDetails, lines 147-151: the details are fetched and printed.
\* The console input handle is signaled when a key was pressed.
Main_PrintFontDataDetails ==
    /\ pc \in {"GetFontDataDetails:nullptr", "GetFontDataDetails:stdin"}
    /\ \E failAt \in 0..Len(DetailsPlan(Deref(m_customFontSet))),
          h \in (IF pc = "GetFontDataDetails:nullptr" THEN {"nullptr"}
                 ELSE {"unsignaled", "signaled"}) :
         /\ DoGetFontDataDetails(h, failAt)
         /\ pc' = IF last'.threw THEN "uncaught" ELSE "return"
         /\ out' = out \o [i \in 1..Len(last'.ret) |-> "detail row"]
    /\ UNCHANGED <<fontVars, scenario, exitCode>>

\* Line 81: return 0.
Main_Return ==
    /\ pc = "return"
    /\ ReturnFromMain("0")
    /\ UNCHANGED <<fontVars, scenario, out>>

\* An exception nothing catches: std::terminate.  With a live manager the
\* implementation may or may not run its destructor first.
Main_Terminate ==
    /\ pc = "uncaught"
    /\ pc' = "exited"
    /\ exitCode' = "terminated"
    /\ \/ mgr = "live" /\ DoDestroy
       \/ UNCHANGED <<mgrVars, last>>
    /\ UNCHANGED <<fontVars, scenario, out>>

MainNext ==
    \/ Main_ProcessArgs
    \/ Main_Construct
    \/ Main_Unavailable
    \/ Main_Build
    \/ Main_NotImplemented
    \/ Main_ReportFontProperties
    \/ Main_NoFontDataDetails
    \/ Main_CheckRemoteFonts
    \/ Main_PrintFontDataDetails
    \/ Main_Return
    \/ Main_Terminate

MainSpec == MainInit /\ [][MainNext]_vars

----------------------------------------------------------------------------
(* Properties *)

\* The call that failed in the last operation (the last call it made).
FailedCall == last.log[Len(last.log)]

Entries == Deref(m_customFontSet)

\* C1: GetFontDataDetails called with a cancellation handle that is already
\* signaled returns the empty vector, whatever the built font set holds.
C1_CancelledReturnsEmpty ==
    (last.op = "GetFontDataDetails" /\ Built /\ last.cancel = "signaled"
        /\ ~last.threw)
        => last.ret = << >>

\* C2: GetFontDataDetails is all or nothing and never fails: when the data of a
\* font cannot be obtained (CreateFontFace fails) it returns the empty vector
\* instead of throwing, and what it returns is empty or has one line per entry.
C2_AllOrNothing ==
    (last.op = "GetFontDataDetails" /\ Built) =>
        /\ ~(last.threw /\ FailedCall.api = "CreateFontFace")
        /\ ~last.threw => Len(last.ret) \in {0, Len(Entries)}

\* C3: once the manager is destroyed, no loader it registered is still
\* registered, and it has asked the factory to unregister no loader that was
\* never registered.
C3_ReleasesEveryLoader ==
    mgr = "destroyed" =>
        /\ registered \cap everRegistered = {}
        /\ unregisterCalls \subseteq everRegistered

\* C4 as stated: over any sequence of build calls the manager creates and
\* registers the loader at most once, so at most one loader is registered.
C4_RegisteredAtMostOnce ==
    /\ loaders <= 1
    /\ Cardinality(everRegistered) <= 1
    /\ Cardinality(registered) <= 1

\* C4 as amended: registration is per build call.  A call that gets past
\* RegisterFontFileLoader registers one newly created loader, never registered
\* before, and points m_inMemoryFontFileLoader at it; a call that fails at or
\* before RegisterFontFileLoader registers none.  So the manager has registered
\* at most as many loaders as it has made build calls.
C4_RegisteredOncePerBuild ==
    /\ [][builds' = builds + 1 =>
            IF Len(last'.log) >= 3
            THEN /\ loaders' = loaders + 1
                 /\ loaders' \notin everRegistered
                 /\ registered' = registered \cup {loaders'}
                 /\ m_inMemoryFontFileLoader' = loaders'
            ELSE registered' = registered]_vars
    /\ [](Cardinality(everRegistered) <= builds)

\* Two build calls have left two loaders registered.
C4_Witness ==
    /\ mgr = "live"
    /\ builds = 2
    /\ Cardinality(registered) = 2

\* The last operation was a build that AddFontFile ended by rejecting a buffer
\* that is no font.
MalformedRejected ==
    /\ last.op = "Build"
    /\ last.threw
    /\ FailedCall.api = "AddFontFile"
    /\ Faces(FailedCall.arg.font) = << >>

\* One of the buffers the providers hand out is no font.
SomeBufferMalformed ==
    \E i \in 1..Len(appFontResources \o documentFonts) :
        Faces((appFontResources \o documentFonts)[i]) = << >>

\* C5: a build over buffers of which one is malformed throws, at the latest
\* when AddFontFile rejects that buffer, and leaves m_customFontSet as it was:
\* a manager that was unbuilt stays unbuilt, with a font count of 0, however
\* many buffers the builder had accepted.
C5_NoPartialFontSet ==
    [][(builds' = builds + 1 /\ (SomeBufferMalformed \/ MalformedRejected')) =>
            /\ last'.threw
            /\ m_customFontSet' = m_customFontSet
            /\ IsNull(m_customFontSet) => GetFontCount(m_customFontSet') = 0]_vars

\* A malformed buffer was rejected after the builder had accepted another one.
C5_Witness ==
    /\ MalformedRejected
    /\ \E i \in 1..(Len(last.log) - 1) : last.log[i].api = "AddFontFile"
    /\ IsNull(m_customFontSet)
    /\ GetFontCount(m_customFontSet) = 0

\* C6: GetFontCount called while no font set is built returns 0 and does not throw.
C6_CountZeroWhenUnbuilt ==
    (last.op = "GetFontCount" /\ IsNull(m_customFontSet))
        => (last.ret = 0 /\ ~last.threw)

\* GetFontCount returned 0 on a manager whose build had failed, with fonts to add.
C6_Witness ==
    /\ last.op = "GetFontCount"
    /\ IsNull(m_customFontSet)
    /\ builds >= 1
    /\ Len(appFontResources) + Len(documentFonts) > 0
    /\ last.ret = 0

\* Every buffer the providers hand out holds exactly one font.
SingleFontBuffers ==
    /\ \A i \in 1..Len(appFontResources) : Len(Faces(appFontResources[i])) = 1
    /\ \A i \in 1..Len(documentFonts) : Len(Faces(documentFonts[i])) = 1

\* C7: after a build that succeeds on N valid, distinct single-font buffers,
\* however split between the two providers, a font set is built and
\* GetFontCount is N; for N = 0 the set is built and the count is 0.
C7_CountIsNumberOfBuffers ==
    (last.op = "Build" /\ ~last.threw /\ SingleFontBuffers)
        => /\ Built
           /\ GetFontCount(m_customFontSet)
                = Len(appFontResources) + Len(documentFonts)

\* A build from one app font and one document font succeeded, with count 2.
C7_Witness ==
    /\ last.op = "Build"
    /\ ~last.threw
    /\ SingleFontBuffers
    /\ Len(appFontResources) = 1
    /\ Len(documentFonts) = 1
    /\ GetFontCount(m_customFontSet) = 2

\* C8: on a built font set CustomFontSetHasRemoteFonts returns TRUE exactly when
\* the locality of some entry is not LOCAL (so FALSE for an empty set).
C8_HasRemoteIffSomeNotLocal ==
    (last.op = "CustomFontSetHasRemoteFonts" /\ Built /\ ~last.threw)
        => (last.ret <=> \E i \in 1..Len(Entries) : Entries[i].locality # "LOCAL")

\* It returned TRUE for a set whose first entry is local and whose second is
\* partially local.
C8_Witness ==
    /\ last.op = "CustomFontSetHasRemoteFonts"
    /\ Built
    /\ ~last.threw
    /\ last.ret
    /\ Len(Entries) >= 2
    /\ Entries[1].locality = "LOCAL"
    /\ Entries[2].locality = "PARTIAL"

Queries == {"GetFontCount", "GetFullFontNames", "GetFontDataDetails",
            "CustomFontSetHasRemoteFonts"}

\* C9: while the manager lives, only a build takes it from unbuilt to built, it
\* never goes back from built to unbuilt, and a query changes neither the
\* state nor the entries of the font set.
C9_UnbuiltToBuiltOnly ==
    [][(mgr = "live" /\ mgr' = "live") =>
            /\ (~Built /\ Built') => (builds' = builds + 1)
            /\ Built => Built'
            /\ (last'.op \in Queries /\ last' # last)
                  => m_customFontSet' = m_customFontSet]_vars

Range(seq) == { seq[i] : i \in 1..Len(seq) }

\* What wmain prints when it gives up.
FatalMessages == {"usage", "requires Windows 10 Creators Update", "not implemented"}

\* C10: a run of wmain that ends on a fatal condition has printed a message
\* about it and exits with a status other than 0; a run exits with 0 only
\* after a build that succeeded and both report steps.
C10_FatalPrintsAndExitsNonZero ==
    pc = "exited" =>
        /\ last.threw => exitCode # "0"
        /\ exitCode # "0" => (out # << >> /\ out[Len(out)] \in FatalMessages)
        /\ exitCode = "0" =>
              /\ builds = 1 /\ Built
              /\ "Number of fonts" \in Range(out)

\* C11: in a run of wmain whose manager has no IDWriteFactory5, the build is
\* never attempted: no call of CreateFontSetUsingInMemoryFontData is made (not
\* even one through the null pointer), no loader is created or registered, no
\* font set is built, and once the run has exited its status is not 0.
C11_NoBuildWithoutFactory5 ==
    (mgr \in {"live", "crashed", "destroyed"} /\ ~m_dwriteFactory5) =>
        /\ builds = 0
        /\ last.op \notin {"Build", "null dereference"}
        /\ loaders = 0
        /\ m_inMemoryFontFileLoader = 0
        /\ everRegistered = {}
        /\ registered = {}
        /\ ~Built
        /\ pc \in {"switch", "exited"}
        /\ pc = "exited" => exitCode = "-1"

\* The in-memory scenario was selected on a manager without IDWriteFactory5:
\* the run printed why it cannot go on and exited with -1, nothing built.
C11_Witness ==
    /\ pc = "exited"
    /\ scenario = "InMemoryFonts"
    /\ mgr = "destroyed"
    /\ ~m_dwriteFactory5
    /\ builds = 0
    /\ exitCode = "-1"
    /\ out = << "Scenario 4", "requires Windows 10 Creators Update" >>

\* The positions of the calls of api in the log of the last operation, in order.
LogPositions(api) ==
    SelectSeq([i \in 1..Len(last.log) |-> i], LAMBDA i : last.log[i].api = api)

\* The arguments of the calls of api in the log of the last operation, in order.
LogArgs(api) ==
    [k \in 1..Len(LogPositions(api)) |-> last.log[LogPositions(api)[k]].arg]

IsPrefix(s, t) == Len(s) <= Len(t) /\ \A i \in 1..Len(s) : s[i] = t[i]

\* The buffers the two providers hand out, in the order of the two loops: the
\* app's fonts by index, then the document's fonts by index.
SourceOrder ==
    [i \in 1..Len(appFontResources) |->
        [src |-> "app", index |-> i - 1, font |-> appFontResources[i]]]
    \o [i \in 1..Len(documentFonts) |->
        [src |-> "doc", index |-> i - 1, font |-> documentFonts[i]]]

\* C12: a build follows a fixed order.  RegisterFontFileLoader is called before
\* any CreateInMemoryFontFileReference; the buffers are turned into file
\* references and added to the builder in source order (the app's fonts by
\* index, then the document's fonts by index); CreateFontSet is called only
\* after every buffer of both sources has been added; the entries of the built
\* set are those of the buffers in that order.
C12_BuildOrder ==
    last.op = "Build" =>
        /\ \A i \in 1..Len(last.log) :
              last.log[i].api = "CreateInMemoryFontFileReference"
                  => \E j \in 1..(i - 1) : last.log[j].api = "RegisterFontFileLoader"
        /\ IsPrefix(LogArgs("CreateInMemoryFontFileReference"), SourceOrder)
        /\ IsPrefix(LogArgs("AddFontFile"), SourceOrder)
        /\ \A i \in 1..Len(last.log) :
              last.log[i].api = "AddFontFile"
                  => /\ i > 1
                     /\ last.log[i - 1].api = "CreateInMemoryFontFileReference"
                     /\ last.log[i - 1].arg = last.log[i].arg
        /\ \A i \in 1..Len(last.log) :
              last.log[i].api = "CreateFontSet"
                  => /\ i = Len(last.log)
                     /\ LogArgs("AddFontFile") = SourceOrder
        /\ ~last.threw
              => /\ Built
                 /\ Entries = Flatten([i \in 1..Len(SourceOrder) |->
                                          EntriesOf(SourceOrder[i].font)])

\* A build from a font collection in the app and one font in the document
\* succeeded: the two faces of the collection come first, the document's font
\* comes third, and the app's buffer was added before the document's.
C12_Witness ==
    /\ last.op = "Build"
    /\ ~last.threw
    /\ appFontResources = << "collection" >>
    /\ Len(documentFonts) = 1
    /\ Built
    /\ Len(Entries) = 3
    /\ Entries[1].file = "collection"
    /\ Entries[3].file = documentFonts[1]
    /\ LogArgs("AddFontFile")[1].src = "app"
    /\ LogArgs("AddFontFile")[2].src = "doc"

\* The platform calls GetFontDataDetails makes; none of them waits for a
\* download or starts one.
DetailsApis ==
    { "GetFontFaceReference", "EnqueueFontDownloadRequest", "CreateFontFace",
      "GetInformationalStrings", "FindLocaleName", "GetStringLength",
      "GetString" }

\* The entries of the font set with their indexes, in index order.
EntryOrder == [i \in 1..Len(Entries) |-> EntryArg(Entries, i)]

====
